---------------------------- MODULE Spec2Model ----------------------------
(***************************************************************************)
(* Model of the GA dashboard agent: the analytics engine                   *)
(* (src/src/analytics.py) and the dashboard generator                      *)
(* (src/src/dashboard.py) as driven by GADashboardAgent.process            *)
(* (src/src/agent.py).                                                     *)
(*                                                                         *)
(* Numbers.  pandas works on floats; the model works on exact rationals    *)
(* [n, d] in lowest terms.  d = 0 stands for the non-finite floats:        *)
(* [n |-> 0, d |-> 0] is NaN and [n |-> 1, d |-> 0] is inf.  round(x, 2)   *)
(* is modelled as exact round-half-to-even on the rational.                *)
(*                                                                         *)
(* Tables.  A DataFrame is [columns, rows]; a row is a function from the   *)
(* column names to naturals.  The value of a key column (source, medium,   *)
(* source_medium) is a channel id; ids are ordered as the channel strings  *)
(* are ordered, so that groupby's sorted key order is ascending id.  An    *)
(* event name is the sequence of its characters.                           *)
(***************************************************************************)
EXTENDS Integers, Sequences, FiniteSets

VARIABLES csv, tie_order, pc, data, summary, source_medium_analysis,
          user_behavior, event_analysis, dashboard, returned

vars == <<csv, tie_order, pc, data, summary, source_medium_analysis,
          user_behavior, event_analysis, dashboard, returned>>

-----------------------------------------------------------------------------
(* Rational arithmetic with NaN / inf                                      *)

NaN == [n |-> 0, d |-> 0]
Inf == [n |-> 1, d |-> 0]

Abs(x) == IF x < 0 THEN -x ELSE x

RECURSIVE GCD(_, _)
GCD(a, b) == IF b = 0 THEN a ELSE GCD(b, a % b)

Norm(n, d) ==
    IF d = 0 THEN (IF n = 0 THEN NaN ELSE Inf)
    ELSE LET g == GCD(Abs(n), d) IN [n |-> n \div g, d |-> d \div g]

RInt(k) == [n |-> k, d |-> 1]
Zero == RInt(0)
IsNaN(r) == r.d = 0 /\ r.n = 0
Finite(r) == r.d > 0

LCM(a, b) == (a \div GCD(a, b)) * b

RAdd(a, b) ==
    IF IsNaN(a) \/ IsNaN(b) THEN NaN
    ELSE IF a.d = 0 THEN a ELSE IF b.d = 0 THEN b
    ELSE LET l == LCM(a.d, b.d)
         IN  Norm(a.n * (l \div a.d) + b.n * (l \div b.d), l)

RSub(a, b) ==
    IF ~Finite(a) \/ ~Finite(b) THEN NaN
    ELSE LET l == LCM(a.d, b.d)
         IN  Norm(a.n * (l \div a.d) - b.n * (l \div b.d), l)

RMul(a, b) ==
    IF ~Finite(a) \/ ~Finite(b) THEN NaN
    ELSE Norm(a.n * b.n, a.d * b.d)

\* float division of non-negative operands: x/0 is inf, 0/0 is NaN
RDiv(a, b) ==
    IF ~Finite(a) \/ IsNaN(b) THEN NaN
    ELSE IF b.d = 0 THEN Zero
    ELSE IF b.n = 0 THEN (IF a.n = 0 THEN NaN ELSE Inf)
    ELSE Norm(a.n * b.d, a.d * b.n)

\* a < b and a > b on floats: every comparison with NaN is False
RLt(a, b) ==
    IF IsNaN(a) \/ IsNaN(b) THEN FALSE
    ELSE IF a.d = 0 THEN FALSE
    ELSE IF b.d = 0 THEN TRUE
    ELSE LET g == GCD(a.d, b.d)
         IN  a.n * (b.d \div g) < b.n * (a.d \div g)

RGt(a, b) == RLt(b, a)

\* round half to even of p/q (q > 0) to an integer
RoundHalfEven(p, q) ==
    LET fl == p \div q
        rem == p % q
    IN  IF 2 * rem < q THEN fl
        ELSE IF 2 * rem > q THEN fl + 1
        ELSE IF fl % 2 = 0 THEN fl ELSE fl + 1

\* round(x, 2)
Round2(r) == IF r.d = 0 THEN r ELSE Norm(RoundHalfEven(r.n * 100, r.d), 100)

\* int(x) of a finite non-negative float
Trunc(r) == r.n \div r.d

RECURSIVE SeqSum(_)
SeqSum(s) == IF s = <<>> THEN 0 ELSE Head(s) + SeqSum(Tail(s))

RECURSIVE RSeqSum(_)
RSeqSum(s) == IF s = <<>> THEN Zero ELSE RAdd(Head(s), RSeqSum(Tail(s)))

\* the subsequence of s whose elements satisfy Keep
RECURSIVE SelectIdx(_, _, _)
SelectIdx(s, i, keep) ==
    IF i > Len(s) THEN <<>>
    ELSE (IF i \in keep THEN <<s[i]>> ELSE <<>>) \o SelectIdx(s, i + 1, keep)

\* Series.sum() and Series.mean() of a column of naturals (mean of nothing is NaN)
ColumnValues(rows, col) == [i \in 1..Len(rows) |-> rows[i][col]]
ColumnSum(rows, col) == RInt(SeqSum(ColumnValues(rows, col)))
ColumnMean(rows, col) == Norm(SeqSum(ColumnValues(rows, col)), Len(rows))

-----------------------------------------------------------------------------
(* The column vocabulary                                                   *)

NumericCols == {"users", "sessions", "pageviews", "conversions", "revenue",
                "bounce_rate", "avg_session_duration"}

-----------------------------------------------------------------------------
(* Input files.  A file is given as the table pd.read_csv returns once the  *)
(* loader has renamed its columns and coerced its numeric cells: columns   *)
(* drawn from the numeric vocabulary plus source and medium, cells         *)
(* non-negative numbers, at least one row.  Row order does not enter any   *)
(* sum or mean, so the enumerated files list their rows in one canonical   *)
(* order.                                                                  *)

MaxRows == 2
MaxChannel == 2
MaxWide == 14
MaxNoisy == 6

MkRow(ch, u, s, pv, c, rev, b, dur) ==
    [col \in NumericCols \cup {"source", "medium"} |->
        CASE col = "source" -> ch
          [] col = "medium" -> 1
          [] col = "users" -> u
          [] col = "sessions" -> s
          [] col = "pageviews" -> pv
          [] col = "conversions" -> c
          [] col = "revenue" -> rev
          [] col = "bounce_rate" -> b
          [] col = "avg_session_duration" -> dur]

Restrict(row, columns) == [col \in columns |-> row[col]]

MkTable(columns, fullrows) ==
    [columns |-> columns,
     rows |-> [i \in 1..Len(fullrows) |-> Restrict(fullrows[i], columns)]]

FileCols == NumericCols \cup {"source", "medium"}

\* Value family: every column present, the cell values vary.
UserVals == {0, 1, 2}
SessionConvVals == {<<0, 0>>, <<3, 1>>}
BounceVals == {40, 100}

RowPool ==
    {MkRow(ch, u, sc[1], 7, sc[2], 5, b, 30) :
        ch \in 1..MaxChannel, u \in UserVals, sc \in SessionConvVals, b \in BounceVals}

RowCode(r) ==
    (((r["source"] * 10 + r["users"]) * 10 + r["sessions"]) * 10
        + r["conversions"]) * 1000 + r["bounce_rate"]

\* rows in ascending order of their code, the channels in use being 1..k
Canonical(rows) ==
    /\ rows[1]["source"] = 1
    /\ \A i \in 1..(Len(rows) - 1) :
          /\ RowCode(rows[i]) <= RowCode(rows[i + 1])
          /\ rows[i + 1]["source"] <= rows[i]["source"] + 1

ValueFiles ==
    {MkTable(FileCols, rows) :
        rows \in {r \in UNION {[1..n -> RowPool] : n \in 1..MaxRows} : Canonical(r)}}

\* Column family: three fixed tables under every subset of the columns.
\* BaseRows[1] is the two-channel scenario of the specification, BaseRows[2]
\* has a channel with no sessions and no users and a channel with two rows,
\* BaseRows[3] has no sessions at all.
BaseRows ==
    << << MkRow(1, 50, 50, 90, 0, 0, 80, 20), MkRow(2, 100, 120, 300, 6, 40, 40, 65) >>,
       << MkRow(1, 4, 8, 20, 1, 9, 30, 40), MkRow(1, 2, 4, 7, 0, 3, 45, 10),
          MkRow(2, 0, 0, 1, 0, 2, 100, 5), MkRow(3, 6, 6, 6, 3, 1, 20, 50) >>,
       << MkRow(1, 3, 0, 2, 0, 1, 60, 0), MkRow(2, 5, 0, 4, 0, 0, 70, 0) >> >>

ColumnFiles ==
    {MkTable(nc \cup kc, BaseRows[b]) :
        nc \in SUBSET NumericCols, kc \in SUBSET {"source", "medium"},
        b \in 1..Len(BaseRows)}

\* Wide family: n channels of one row each; the last k of them are noisy
\* (the first h of those with bounce 100, the others with bounce 90), the
\* remaining channels quiet (bounce 10); users rise or fall with the channel id.
WideRow(i, n, k, h, rising) ==
    LET u == IF rising THEN i ELSE n + 1 - i
        b == IF i <= n - k THEN 10 ELSE IF i <= n - k + h THEN 100 ELSE 90
    IN  MkRow(i, u, 2 * u, 3 * u, 1, 0, b, 30)

WideFiles ==
    UNION {
      UNION {
        {MkTable(FileCols, [i \in 1..n |-> WideRow(i, n, k, h, rising)]) :
            h \in 0..k, rising \in BOOLEAN}
        : k \in 0..(IF n < MaxNoisy THEN n ELSE MaxNoisy)}
      : n \in 1..MaxWide}

\* Event family.  An event name is a string, held as its sequence of
\* characters.  The first six names meet the keyword lists of the event
\* analysis in different ways, the others (ev_a, ev_b, ...) meet none.
MaxEventRows == 2
MaxEventNames == 12

Letters == <<"a", "b", "c", "d", "e", "f", "g", "h", "i", "j", "k", "l", "m",
             "n", "o", "p", "q", "r", "s", "t", "u", "v", "w", "x", "y", "z">>

KeywordNames ==
    << <<"p", "a", "g", "e", "_", "v", "i", "e", "w">>,
       <<"C", "l", "i", "c", "k", "_", "P", "u", "r", "c", "h", "a", "s", "e">>,
       <<"v", "i", "d", "e", "o", "_", "p", "l", "a", "y">>,
       <<"s", "i", "g", "n", "_", "u", "p">>,
       <<"l", "o", "g", "i", "n">>,
       <<"p", "u", "r", "c", "h", "a", "s", "e">> >>

EventName(i) ==
    IF i <= Len(KeywordNames) THEN KeywordNames[i]
    ELSE <<"e", "v", "_", Letters[i - Len(KeywordNames)]>>

EventRow(name, count) ==
    LET base == MkRow(1, 10, 20, 30, 1, 5, 40, 30)
    IN  [col \in FileCols \cup {"event_name", "event_count"} |->
            CASE col = "event_name" -> name
              [] col = "event_count" -> count
              [] OTHER -> base[col]]

EventCols == {"source", "medium", "users", "sessions", "conversions", "bounce_rate",
              "event_name", "event_count"}

\* up to MaxEventRows rows of any of the first three names, counted 1 or 2
ShortEventFiles ==
    {MkTable(EventCols, rows) :
        rows \in UNION {[1..n -> {EventRow(EventName(i), c) : i \in 1..3, c \in {1, 2}}]
                        : n \in 1..MaxEventRows}}

\* n rows of n different names, listed in the order of EventName or in the
\* opposite order, their counts all equal, rising or falling along the rows
LongEventFiles ==
    {MkTable(EventCols,
             [r \in 1..n |->
                 EventRow(EventName(IF forward THEN r ELSE n + 1 - r),
                          CASE trend = "equal" -> 4
                            [] trend = "rising" -> r
                            [] trend = "falling" -> n + 1 - r)]) :
        n \in 1..MaxEventNames, forward \in BOOLEAN,
        trend \in {"equal", "rising", "falling"}}

\* an event_name column without an event_count column
UncountedEventFiles ==
    {MkTable(EventCols \ {"event_count"}, <<EventRow(EventName(i), 0)>>) :
        i \in 1..Len(KeywordNames)}

EventFiles == ShortEventFiles \cup LongEventFiles \cup UncountedEventFiles

\* Rate family: one row whose conversion rate lies below, at (exactly, or
\* after rounding to 2 decimals) or above 3 and whose bounce rate lies around
\* 50 and 60, with and without the key columns.
RatePairs == {<<100, 0>>, <<100, 2>>, <<100, 3>>, <<100, 4>>, <<100000, 3001>>}

RateFiles ==
    {MkTable(NumericCols \cup kc, <<MkRow(1, 10, sc[1], 200, sc[2], 0, b, 30)>>) :
        sc \in RatePairs, b \in {40, 50, 55, 60, 65}, kc \in {{}, {"source", "medium"}}}

Files == ValueFiles \cup ColumnFiles \cup WideFiles \cup EventFiles \cup RateFiles

\* The files given to an agent that is called more than once, each of them in
\* Files: the two-channel scenario, a file with events, a one-row file without
\* key columns, and a file whose analysis raises.  A sequence of calls is a
\* sequence of at most MaxCalls of these.
MaxCalls == 2

RepeatFiles ==
    {MkTable(FileCols, BaseRows[1]),
     MkTable(EventCols, <<EventRow(EventName(2), 2), EventRow(EventName(3), 1)>>),
     MkTable(NumericCols, <<MkRow(1, 10, 100, 200, 2, 0, 65, 30)>>),
     MkTable({"source", "sessions"}, BaseRows[3])}

-----------------------------------------------------------------------------
(* State                                                                   *)
(*   csv                     the input file of the process call under way  *)
(*                           (Init is the entry of the first call)         *)
(*   tie_order               how the build's default (unstable) sort       *)
(*                           leaves rows with equal keys                   *)
(*   pc                      position inside GADashboardAgent.process      *)
(*   data                    self.data                                     *)
(*   summary                 result of compute_summary_metrics             *)
(*   source_medium_analysis  result of analyze_source_medium               *)
(*   user_behavior           result of analyze_user_behavior               *)
(*   event_analysis          result of analyze_events                      *)
(*   dashboard               what self.dashboard_generator last generated  *)
(*   returned                what the process calls made so far handed to  *)
(*                           their caller, oldest first: a dashboard, or   *)
(*                           Raised for a call left by an exception        *)

NoData == [columns |-> {}, rows |-> <<>>]
NoResult == [status |-> "none"]
Raised == [status |-> "raised"]

Init ==
    /\ csv \in Files
    /\ tie_order \in {"kept", "reversed"}
    /\ pc = "start"
    /\ data = NoData
    /\ summary = NoResult
    /\ source_medium_analysis = NoResult
    /\ user_behavior = NoResult
    /\ event_analysis = NoResult
    /\ dashboard = NoResult
    /\ returned = <<>>

-----------------------------------------------------------------------------
(* GADataLoader.load_csv: the part after renaming and coercion             *)

load_csv(file) ==
    IF "source" \in file.columns /\ "medium" \in file.columns
    THEN [columns |-> file.columns \cup {"source_medium"},
          rows |-> [i \in 1..Len(file.rows) |->
                      [col \in file.columns \cup {"source_medium"} |->
                          IF col = "source_medium"
                          THEN file.rows[i]["source"] * 10 + file.rows[i]["medium"]
                          ELSE file.rows[i][col]]]]
    ELSE file

\* variant: a call on an agent that already holds data keeps that data
_load_data_once ==
    /\ pc = "start"
    /\ data' = IF data = NoData THEN load_csv(csv) ELSE data
    /\ pc' = "loaded"
    /\ UNCHANGED <<csv, tie_order, summary, source_medium_analysis,
                   user_behavior, event_analysis, dashboard, returned>>

_load_data ==
    /\ pc = "start"
    /\ data' = load_csv(csv)
    /\ pc' = "loaded"
    /\ UNCHANGED <<csv, tie_order, summary, source_medium_analysis,
                   user_behavior, event_analysis, dashboard, returned>>

-----------------------------------------------------------------------------
(* AnalyticsEngine: summary metrics                                        *)

_safe_sum(d, col) == IF col \in d.columns THEN ColumnSum(d.rows, col) ELSE Zero

\* variant: the mean of a column that is not there taken as the mean of nothing
_safe_mean_of_nothing(d, col) ==
    IF col \in d.columns THEN ColumnMean(d.rows, col) ELSE NaN

_safe_mean(d, col) == IF col \in d.columns THEN ColumnMean(d.rows, col) ELSE Zero

_calculate_pages_per_session(d) ==
    IF "pageviews" \in d.columns /\ "sessions" \in d.columns
    THEN LET total_sessions == ColumnSum(d.rows, "sessions")
         IN  IF RGt(total_sessions, Zero)
             THEN Round2(RDiv(ColumnSum(d.rows, "pageviews"), total_sessions))
             ELSE Zero
    ELSE Zero

\* variant: the guard admits a zero session total
_calculate_conversion_rate_unguarded(d) ==
    IF "conversions" \in d.columns /\ "sessions" \in d.columns
    THEN LET total_sessions == ColumnSum(d.rows, "sessions")
         IN  IF ~RLt(total_sessions, Zero)
             THEN Round2(RMul(RDiv(ColumnSum(d.rows, "conversions"), total_sessions),
                              RInt(100)))
             ELSE Zero
    ELSE Zero

_calculate_conversion_rate(d) ==
    IF "conversions" \in d.columns /\ "sessions" \in d.columns
    THEN LET total_sessions == ColumnSum(d.rows, "sessions")
         IN  IF RGt(total_sessions, Zero)
             THEN Round2(RMul(RDiv(ColumnSum(d.rows, "conversions"), total_sessions),
                              RInt(100)))
             ELSE Zero
    ELSE Zero

summary_metrics(d) ==
    [status |-> "ok",
     total_users |-> _safe_sum(d, "users"),
     total_sessions |-> _safe_sum(d, "sessions"),
     total_pageviews |-> _safe_sum(d, "pageviews"),
     total_conversions |-> _safe_sum(d, "conversions"),
     total_revenue |-> _safe_sum(d, "revenue"),
     avg_bounce_rate |-> _safe_mean(d, "bounce_rate"),
     avg_session_duration |-> _safe_mean(d, "avg_session_duration"),
     pages_per_session |-> _calculate_pages_per_session(d),
     conversion_rate |-> _calculate_conversion_rate(d)]

compute_summary_metrics ==
    /\ pc = "loaded"
    /\ summary' = summary_metrics(data)
    /\ pc' = "summary"
    /\ UNCHANGED <<csv, tie_order, data, source_medium_analysis,
                   user_behavior, event_analysis, dashboard, returned>>

-----------------------------------------------------------------------------
(* AnalyticsEngine.analyze_source_medium: grouping                         *)
(* A grouped frame is [key_col, columns, rows]; each row is                *)
(* [key |-> channel id, v |-> function from the metric columns to floats]. *)

RECURSIVE SortedKeys(_)
SortedKeys(S) ==
    IF S = {} THEN <<>>
    ELSE LET m == CHOOSE x \in S : \A y \in S : x <= y
         IN  <<m>> \o SortedKeys(S \ {m})

agg_cols(d) ==
    {col \in {"users", "sessions", "pageviews", "conversions", "revenue",
              "bounce_rate", "avg_session_duration"} : col \in d.columns}

\* self.data.groupby(group_col).agg(agg_cols).reset_index(): one row per key,
\* keys ascending; volume columns summed, rate columns averaged
groupby_agg(d, group_col) ==
    LET keys == SortedKeys({d.rows[i][group_col] : i \in 1..Len(d.rows)})
        members(k) == SelectSeq(d.rows, LAMBDA r : r[group_col] = k)
    IN  [key_col |-> group_col,
         columns |-> agg_cols(d),
         rows |-> [j \in 1..Len(keys) |->
                    [key |-> keys[j],
                     v |-> [col \in agg_cols(d) |->
                              IF col \in {"bounce_rate", "avg_session_duration"}
                              THEN ColumnMean(members(keys[j]), col)
                              ELSE ColumnSum(members(keys[j]), col)]]]]

\* Series.replace(0, np.nan)
replace_zero_nan(x) == IF x = Zero THEN NaN ELSE x

\* grouped['sessions'] / grouped['users'].replace(0, np.nan)
sessions_per_user(row) == RDiv(row.v["sessions"], replace_zero_nan(row.v["users"]))

\* (grouped['conversions'] / grouped['sessions'].replace(0, np.nan)) * 100
conversion_rate(row) ==
    RMul(RDiv(row.v["conversions"], replace_zero_nan(row.v["sessions"])), RInt(100))

Extend(f, col, val) == [c \in DOMAIN f \cup {col} |-> IF c = col THEN val ELSE f[c]]

derive_metrics(g) ==
    LET has_spu == "users" \in g.columns /\ "sessions" \in g.columns
        has_cr == "conversions" \in g.columns /\ "sessions" \in g.columns
        with_spu(row) ==
            IF has_spu THEN [row EXCEPT !.v = Extend(row.v, "sessions_per_user",
                                                     sessions_per_user(row))]
            ELSE row
        with_cr(row) ==
            IF has_cr THEN [row EXCEPT !.v = Extend(row.v, "conversion_rate",
                                                    conversion_rate(row))]
            ELSE row
    IN  [key_col |-> g.key_col,
         columns |-> g.columns \cup (IF has_spu THEN {"sessions_per_user"} ELSE {})
                               \cup (IF has_cr THEN {"conversion_rate"} ELSE {}),
         rows |-> [j \in 1..Len(g.rows) |-> with_cr(with_spu(g.rows[j]))]]

Reverse(s) == [i \in 1..Len(s) |-> s[Len(s) + 1 - i]]

\* insertion of x behind every element whose users are not smaller
RECURSIVE InsertDesc(_, _)
InsertDesc(x, sorted) ==
    IF sorted = <<>> THEN <<x>>
    ELSE IF RLt(Head(sorted).v["users"], x.v["users"]) THEN <<x>> \o sorted
    ELSE <<Head(sorted)>> \o InsertDesc(x, Tail(sorted))

RECURSIVE StableSortDesc(_, _)
StableSortDesc(rest, sorted) ==
    IF rest = <<>> THEN sorted
    ELSE StableSortDesc(Tail(rest), InsertDesc(Head(rest), sorted))

\* grouped.sort_values('users', ascending=False): the default kind is quicksort,
\* which is not stable; rows with equal users come out in the grouping order
\* or in the opposite order, as the build has it (ties)
sort_values_users_desc(rows, ties) ==
    IF ties = "kept" THEN StableSortDesc(rows, <<>>)
    ELSE StableSortDesc(Reverse(rows), <<>>)

-----------------------------------------------------------------------------
(* AnalyticsEngine.analyze_source_medium: classification                   *)

head_n == 5
underperformer_cap == 5

FirstN(s, n) == SubSeq(s, 1, IF Len(s) < n THEN Len(s) ELSE n)
LastN(s, n) == SubSeq(s, IF Len(s) < n THEN 1 ELSE Len(s) - n + 1, Len(s))

\* row.get('source_medium', row.get('source', 'Unknown')) on a grouped row
channel_of(row) == row.key

\* pd.notna
notna(x) == ~IsNaN(x)

\* variant: a negative weight is applied to the metric itself, not to 100 - metric
score_term_uninverted(row, metric, tenths) ==
    IF metric \in DOMAIN row.v /\ notna(row.v[metric])
    THEN RMul(row.v[metric], Norm(Abs(tenths), 10))
    ELSE Zero

\* one pass of the loop over weights.items(); weights are given in tenths
score_term(row, metric, tenths) ==
    IF metric \in DOMAIN row.v /\ notna(row.v[metric])
    THEN IF tenths > 0
         THEN RMul(row.v[metric], Norm(tenths, 10))
         ELSE RMul(RSub(RInt(100), row.v[metric]), Norm(Abs(tenths), 10))
    ELSE Zero

_calculate_performance_score(row) ==
    Round2(RAdd(RAdd(RAdd(Zero, score_term(row, "conversion_rate", 4)),
                     score_term(row, "sessions_per_user", 3)),
                score_term(row, "bounce_rate", -3)))

\* variant: the five groups are taken from the end of the sorted frame
_identify_top_performers_tail(g) ==
    LET top == LastN(g.rows, head_n)
    IN  [j \in 1..Len(top) |->
            [channel |-> channel_of(top[j]),
             users |-> Trunc(top[j].v["users"]),
             performance_score |-> _calculate_performance_score(top[j])]]

_identify_top_performers(g) ==
    LET top == FirstN(g.rows, head_n)
    IN  [j \in 1..Len(top) |->
            [channel |-> channel_of(top[j]),
             users |-> Trunc(top[j].v["users"]),
             performance_score |-> _calculate_performance_score(top[j])]]

\* x[i] > x.mean() + x.std() for finite floats x, Series.std() dividing by
\* n - ddof; the std of fewer than ddof + 1 values is NaN and the test False.
\* Decided exactly on integers: with D a common denominator, y = x * D,
\* dev = n * y[i] - sum(y), the test is dev > 0 and
\* dev^2 * (n - ddof) > sum over j of (n * y[j] - sum(y))^2.
RECURSIVE DenProduct(_)
DenProduct(xs) == IF xs = <<>> THEN 1 ELSE Head(xs).d * DenProduct(Tail(xs))

\* variant: the threshold itself counts as exceeding it (>= for >)
above_mean_plus_std_inclusive(xs, i, ddof) ==
    LET n == Len(xs)
        D == DenProduct(xs)
        y == [j \in 1..n |-> xs[j].n * (D \div xs[j].d)]
        Y == SeqSum(y)
        dev == [j \in 1..n |-> n * y[j] - Y]
        SS == SeqSum([j \in 1..n |-> dev[j] * dev[j]])
    IN  /\ n - ddof > 0
        /\ dev[i] >= 0
        /\ dev[i] * dev[i] * (n - ddof) >= SS

above_mean_plus_std(xs, i, ddof) ==
    LET n == Len(xs)
        D == DenProduct(xs)
        y == [j \in 1..n |-> xs[j].n * (D \div xs[j].d)]
        Y == SeqSum(y)
        dev == [j \in 1..n |-> n * y[j] - Y]
        SS == SeqSum([j \in 1..n |-> dev[j] * dev[j]])
    IN  /\ n - ddof > 0
        /\ dev[i] > 0
        /\ dev[i] * dev[i] * (n - ddof) > SS

\* variant: the population standard deviation (ddof = 0)
high_bounce_population(g) ==
    LET xs == [j \in 1..Len(g.rows) |-> g.rows[j].v["bounce_rate"]]
    IN  {j \in 1..Len(g.rows) : above_mean_plus_std(xs, j, 0)}

\* grouped[grouped['bounce_rate'] > mean + std], as row positions of g;
\* Series.std() is the sample standard deviation (ddof = 1)
high_bounce(g) ==
    LET xs == [j \in 1..Len(g.rows) |-> g.rows[j].v["bounce_rate"]]
    IN  {j \in 1..Len(g.rows) : above_mean_plus_std(xs, j, 1)}


underperformer_entries(g) ==
    LET hb == SelectIdx(g.rows, 1, high_bounce(g))
    IN  [j \in 1..Len(hb) |->
            [channel |-> channel_of(hb[j]),
             issue |-> "High bounce rate",
             bounce_rate |-> Round2(hb[j].v["bounce_rate"])]]

\* variant: the slice keeps the last five entries
_identify_underperformers_last_five(g) ==
    IF "bounce_rate" \in g.columns
    THEN LastN(underperformer_entries(g), underperformer_cap)
    ELSE <<>>

\* variant: no slice
_identify_underperformers_uncapped(g) ==
    IF "bounce_rate" \in g.columns THEN underperformer_entries(g) ELSE <<>>

_identify_underperformers(g) ==
    IF "bounce_rate" \in g.columns
    THEN FirstN(underperformer_entries(g), underperformer_cap)
    ELSE <<>>

\* variant: the share is left as a fraction
_calculate_distribution_fraction(g, metric) ==
    IF metric \notin g.columns THEN <<>>
    ELSE LET total == RSeqSum([j \in 1..Len(g.rows) |-> g.rows[j].v[metric]])
         IN  [j \in 1..Len(g.rows) |->
                [channel |-> channel_of(g.rows[j]),
                 value |-> Trunc(g.rows[j].v[metric]),
                 percentage |->
                    IF RGt(total, Zero)
                    THEN Round2(RDiv(g.rows[j].v[metric], total))
                    ELSE Zero]]

_calculate_distribution(g, metric) ==
    IF metric \notin g.columns THEN <<>>
    ELSE LET total == RSeqSum([j \in 1..Len(g.rows) |-> g.rows[j].v[metric]])
         IN  [j \in 1..Len(g.rows) |->
                [channel |-> channel_of(g.rows[j]),
                 value |-> Trunc(g.rows[j].v[metric]),
                 percentage |->
                    IF RGt(total, Zero)
                    THEN Round2(RMul(RDiv(g.rows[j].v[metric], total), RInt(100)))
                    ELSE Zero]]

\* Series.mean(): NaN entries are skipped; the mean of nothing is NaN
nanmean(xs) ==
    LET kept == SelectSeq(xs, notna)
    IN  IF kept = <<>> THEN NaN ELSE RDiv(RSeqSum(kept), RInt(Len(kept)))

\* Series.idxmin() / idxmax(): position of the first smallest / largest entry,
\* NaN entries skipped; 0 when every entry is NaN (idxmax then yields NaN or
\* raises, depending on the pandas version)
idxmin(xs) ==
    IF \A j \in 1..Len(xs) : IsNaN(xs[j]) THEN 0
    ELSE CHOOSE j \in 1..Len(xs) :
            /\ notna(xs[j])
            /\ \A k \in 1..Len(xs) : notna(xs[k]) =>
                  /\ ~RLt(xs[k], xs[j])
                  /\ (k < j => RLt(xs[j], xs[k]))

idxmax(xs) ==
    IF \A j \in 1..Len(xs) : IsNaN(xs[j]) THEN 0
    ELSE CHOOSE j \in 1..Len(xs) :
            /\ notna(xs[j])
            /\ \A k \in 1..Len(xs) : notna(xs[k]) =>
                  /\ ~RGt(xs[k], xs[j])
                  /\ (k < j => RGt(xs[j], xs[k]))

NA == [label |-> "N/A"]
Channel(k) == [key |-> k]

\* grouped.loc[label, 'source_medium'] if 'source_medium' in grouped.columns
\* else 'N/A'; the lookup of a label that is NaN raises
best_channel(g, pos) ==
    IF g.key_col = "source_medium"
    THEN (IF pos = 0 THEN Raised ELSE Channel(g.rows[pos].key))
    ELSE NA

_analyze_traffic_quality(g) ==
    LET col(c) == [j \in 1..Len(g.rows) |-> g.rows[j].v[c]]
        has_b == "bounce_rate" \in g.columns
        has_c == "conversion_rate" \in g.columns
        best_b == best_channel(g, IF g.key_col = "source_medium"
                                  THEN idxmin(col("bounce_rate")) ELSE 0)
        best_c == best_channel(g, IF g.key_col = "source_medium"
                                  THEN idxmax(col("conversion_rate")) ELSE 0)
        fields == (IF has_b THEN {"avg_bounce_rate", "best_bounce_rate_channel"} ELSE {})
                  \cup (IF has_c THEN {"avg_conversion_rate", "best_conversion_channel"}
                        ELSE {})
    IN  IF (has_b /\ best_b = Raised) \/ (has_c /\ best_c = Raised) THEN Raised
        ELSE [status |-> "ok",
              metrics |-> [f \in fields |->
                  CASE f = "avg_bounce_rate" -> Round2(nanmean(col("bounce_rate")))
                    [] f = "best_bounce_rate_channel" -> best_b
                    [] f = "avg_conversion_rate" -> Round2(nanmean(col("conversion_rate")))
                    [] f = "best_conversion_channel" -> best_c]]

\* analyze_source_medium as a function of self.data and the build's tie order
source_medium_result(d, ties) ==
    IF "source_medium" \notin d.columns /\ "source" \notin d.columns
    THEN [status |-> "error", error |-> "No source/medium data available"]
    ELSE LET group_col == IF "source_medium" \in d.columns THEN "source_medium"
                          ELSE "source"
             derived == derive_metrics(groupby_agg(d, group_col))
         IN  IF "users" \notin derived.columns
             THEN Raised   \* sort_values('users'): KeyError
             ELSE LET grouped == [derived EXCEPT
                                    !.rows = sort_values_users_desc(derived.rows, ties)]
                      quality == _analyze_traffic_quality(grouped)
                  IN  IF quality = Raised THEN Raised
                      ELSE [status |-> "ok",
                            key_col |-> group_col,
                            columns |-> grouped.columns,
                            by_channel |-> grouped.rows,
                            top_performers |-> _identify_top_performers(grouped),
                            underperformers |-> _identify_underperformers(grouped),
                            channel_distribution |->
                                _calculate_distribution(grouped, "users"),
                            quality_analysis |-> quality.metrics]

\* process() leaves with the exception when analyze_source_medium raises; the
\* method may be called again on the same engine
analyze_source_medium ==
    /\ pc \in {"summary", "source_medium"}
    /\ source_medium_analysis' = source_medium_result(data, tie_order)
    /\ pc' = IF source_medium_analysis'.status = "raised" THEN "failed"
             ELSE "source_medium"
    /\ returned' = IF source_medium_analysis'.status = "raised"
                   THEN Append(returned, Raised) ELSE returned
    /\ UNCHANGED <<csv, tie_order, data, summary,
                   user_behavior, event_analysis, dashboard>>

-----------------------------------------------------------------------------
(* AnalyticsEngine.analyze_user_behavior                                   *)

\* Python's max(x, 1)
max_1(x) == IF RGt(RInt(1), x) THEN RInt(1) ELSE x

_compute_engagement_metrics(d) ==
    [avg_pages_per_session |-> _calculate_pages_per_session(d),
     avg_session_duration |-> _safe_mean(d, "avg_session_duration"),
     engagement_rate |-> RSub(RInt(100), _safe_mean(d, "bounce_rate"))]

_analyze_sessions(d) ==
    [total_sessions |-> _safe_sum(d, "sessions"),
     sessions_per_user |->
        Round2(RDiv(_safe_sum(d, "sessions"), max_1(_safe_sum(d, "users"))))]

_compute_retention_indicators(d) ==
    [returning_user_indicator |->
        Round2(RDiv(_safe_mean(d, "sessions"), max_1(_safe_sum(d, "users"))))]

_analyze_user_journey(d) ==
    [avg_touchpoints |-> _calculate_pages_per_session(d),
     conversion_funnel_rate |-> _calculate_conversion_rate(d)]

user_behavior_result(d) ==
    [status |-> "ok",
     engagement_metrics |-> _compute_engagement_metrics(d),
     session_analysis |-> _analyze_sessions(d),
     retention_indicators |-> _compute_retention_indicators(d),
     user_journey |-> _analyze_user_journey(d)]

analyze_user_behavior ==
    /\ pc = "source_medium"
    /\ user_behavior' = user_behavior_result(data)
    /\ pc' = "behavior"
    /\ UNCHANGED <<csv, tie_order, data, summary, source_medium_analysis,
                   event_analysis, dashboard, returned>>

-----------------------------------------------------------------------------
(* Strings                                                                 *)

\* the characters of event names in code point order
Alphabet ==
    <<"A", "B", "C", "D", "E", "F", "G", "H", "I", "J", "K", "L", "M",
      "N", "O", "P", "Q", "R", "S", "T", "U", "V", "W", "X", "Y", "Z", "_">>
    \o Letters

\* the position of each character in Alphabet
Position ==
    [c \in {Alphabet[i] : i \in 1..Len(Alphabet)} |->
        CHOOSE i \in 1..Len(Alphabet) : Alphabet[i] = c]

Ord(c) == Position[c]

\* str.lower()
lower(str) ==
    [i \in 1..Len(str) |->
        LET o == Ord(str[i]) IN IF o <= 26 THEN Alphabet[o + 27] ELSE str[i]]

\* kw in str
contains(str, kw) ==
    \E i \in 0..(Len(str) - Len(kw)) : SubSeq(str, i + 1, i + Len(kw)) = kw

\* any(kw in str(e).lower() for kw in keywords)
any_keyword(e, keywords) ==
    LET lowered == lower(e)
    IN  \E k \in 1..Len(keywords) : contains(lowered, keywords[k])

\* str < str: the first differing character decides, a proper prefix is smaller
RECURSIVE str_lt(_, _)
str_lt(a, b) ==
    IF b = <<>> THEN FALSE
    ELSE IF a = <<>> THEN TRUE
    ELSE IF Head(a) # Head(b) THEN Ord(Head(a)) < Ord(Head(b))
    ELSE str_lt(Tail(a), Tail(b))

-----------------------------------------------------------------------------
(* AnalyticsEngine.analyze_events                                          *)

top_events_n == 10

\* Series.unique(): the distinct values in order of first appearance
RECURSIVE unique(_)
unique(xs) ==
    IF xs = <<>> THEN <<>>
    ELSE LET init == unique(SubSeq(xs, 1, Len(xs) - 1))
             last == xs[Len(xs)]
         IN  IF \E i \in 1..Len(init) : init[i] = last THEN init
             ELSE Append(init, last)

_summarize_events(d) ==
    [total_events |-> Trunc(_safe_sum(d, "event_count")),
     unique_event_types |-> Len(unique(ColumnValues(d.rows, "event_name")))]

\* the group keys of groupby('event_name'), in ascending order
RECURSIVE SortedNames(_)
SortedNames(S) ==
    IF S = {} THEN <<>>
    ELSE LET m == CHOOSE x \in S : \A y \in S : ~str_lt(y, x)
         IN  <<m>> \o SortedNames(S \ {m})

\* self.data.groupby('event_name')['event_count'].sum()
event_counts(d) ==
    LET names == SortedNames({d.rows[i]["event_name"] : i \in 1..Len(d.rows)})
        members(nm) == SelectSeq(d.rows, LAMBDA r : r["event_name"] = nm)
    IN  [j \in 1..Len(names) |->
            [event |-> names[j],
             count |-> SeqSum(ColumnValues(members(names[j]), "event_count"))]]

RECURSIVE InsertCountDesc(_, _)
InsertCountDesc(x, sorted) ==
    IF sorted = <<>> THEN <<x>>
    ELSE IF Head(sorted).count < x.count THEN <<x>> \o sorted
    ELSE <<Head(sorted)>> \o InsertCountDesc(x, Tail(sorted))

RECURSIVE StableCountSortDesc(_, _)
StableCountSortDesc(rest, sorted) ==
    IF rest = <<>> THEN sorted
    ELSE StableCountSortDesc(Tail(rest), InsertCountDesc(Head(rest), sorted))

\* Series.sort_values(ascending=False): the default kind is quicksort, so that
\* entries with equal counts come out in the order they had or in the opposite
\* order, as the build has it (ties)
sort_values_desc(entries, ties) ==
    IF ties = "kept" THEN StableCountSortDesc(entries, <<>>)
    ELSE StableCountSortDesc(Reverse(entries), <<>>)

_get_top_events(d, ties) == FirstN(sort_values_desc(event_counts(d), ties), top_events_n)

_identify_conversion_events(d) ==
    LET conversion_keywords ==
            << <<"p", "u", "r", "c", "h", "a", "s", "e">>,
               <<"s", "i", "g", "n", "u", "p">>,
               <<"s", "u", "b", "m", "i", "t">>,
               <<"c", "o", "m", "p", "l", "e", "t", "e">>,
               <<"c", "o", "n", "v", "e", "r", "s", "i", "o", "n">>,
               <<"l", "e", "a", "d">> >>
    IN  SelectSeq(unique(ColumnValues(d.rows, "event_name")),
                  LAMBDA e : any_keyword(e, conversion_keywords))

\* engagement_categories, in the order of the dict
categories == <<"navigation", "interaction", "conversion">>

engagement_categories ==
    [navigation |-> << <<"p", "a", "g", "e", "_", "v", "i", "e", "w">>,
                       <<"s", "c", "r", "o", "l", "l">>,
                       <<"c", "l", "i", "c", "k">> >>,
     interaction |-> << <<"v", "i", "d", "e", "o", "_", "p", "l", "a", "y">>,
                        <<"f", "i", "l", "e", "_", "d", "o", "w", "n", "l", "o", "a", "d">>,
                        <<"f", "o", "r", "m", "_", "s", "t", "a", "r", "t">> >>,
     conversion |-> << <<"p", "u", "r", "c", "h", "a", "s", "e">>,
                       <<"s", "i", "g", "n", "_", "u", "p">>,
                       <<"g", "e", "n", "e", "r", "a", "t", "e", "_", "l", "e", "a", "d">> >>]

\* variant: the inner loop has no break, an event joins every category it matches
_categorize_engagement_events_every_match(d) ==
    LET events == unique(ColumnValues(d.rows, "event_name"))
    IN  [cat \in {categories[c] : c \in 1..Len(categories)} |->
            SelectSeq(events, LAMBDA e : any_keyword(e, engagement_categories[cat]))]

\* the loop over events and categories: an event is appended to the first
\* category one of whose keywords it contains, and the inner loop breaks
_categorize_engagement_events(d) ==
    LET first_match(e) ==
            IF \E c \in 1..Len(categories) :
                    any_keyword(e, engagement_categories[categories[c]])
            THEN CHOOSE c \in 1..Len(categories) :
                    /\ any_keyword(e, engagement_categories[categories[c]])
                    /\ \A b \in 1..(c - 1) :
                          ~any_keyword(e, engagement_categories[categories[b]])
            ELSE 0
        events == unique(ColumnValues(d.rows, "event_name"))
        matched == [i \in 1..Len(events) |-> first_match(events[i])]
        of_category(cat) == {i \in 1..Len(events) :
                                matched[i] # 0 /\ categories[matched[i]] = cat}
    IN  [cat \in {categories[c] : c \in 1..Len(categories)} |->
            SelectIdx(events, 1, of_category(cat))]

NoEvents == [status |-> "absent", message |-> "No event data available in CSV"]

\* variant: the events are analysed without looking for the event_name column
event_result_unguarded(d, ties) ==
    IF "event_name" \notin d.columns \/ "event_count" \notin d.columns
    THEN Raised
    ELSE [status |-> "ok",
          event_summary |-> _summarize_events(d),
          top_events |-> _get_top_events(d, ties),
          conversion_events |-> _identify_conversion_events(d),
          engagement_events |-> _categorize_engagement_events(d)]

\* analyze_events as a function of self.data and the build's tie order
event_result(d, ties) ==
    IF "event_name" \notin d.columns THEN NoEvents
    ELSE IF "event_count" \notin d.columns
    THEN Raised   \* groupby('event_name')['event_count']: KeyError
    ELSE [status |-> "ok",
          event_summary |-> _summarize_events(d),
          top_events |-> _get_top_events(d, ties),
          conversion_events |-> _identify_conversion_events(d),
          engagement_events |-> _categorize_engagement_events(d)]

\* process() leaves with the exception when analyze_events raises
analyze_events ==
    /\ pc = "behavior"
    /\ event_analysis' = event_result(data, tie_order)
    /\ pc' = IF event_analysis'.status = "raised" THEN "failed" ELSE "events"
    /\ returned' = IF event_analysis'.status = "raised"
                   THEN Append(returned, Raised) ELSE returned
    /\ UNCHANGED <<csv, tie_order, data, summary, source_medium_analysis,
                   user_behavior, dashboard>>

-----------------------------------------------------------------------------
(* DashboardGenerator.  Texts that do not depend on the metrics are left   *)
(* out; a text computed from the metrics is represented by its title and   *)
(* the values it interpolates, formatted as the f-string formats them.     *)

Digit == <<"0", "1", "2", "3", "4", "5", "6", "7", "8", "9">>

RECURSIVE digits(_)
digits(n) == IF n < 10 THEN <<Digit[n + 1]>>
             ELSE Append(digits(n \div 10), Digit[(n % 10) + 1])

\* the ',' option: a comma before every group of three digits from the right
RECURSIVE thousands(_)
thousands(ds) ==
    IF Len(ds) <= 3 THEN ds
    ELSE thousands(SubSeq(ds, 1, Len(ds) - 3)) \o <<",">>
            \o SubSeq(ds, Len(ds) - 2, Len(ds))

\* format(x, ',d') of a non-negative int
format_int(n) == thousands(digits(n))

\* format(x, '.0f'), '.2f', ',.0f' or ',.2f' of a non-negative finite number
format_fixed(x, decimals, comma) ==
    LET scale == IF decimals = 2 THEN 100 ELSE 1
        scaled == RoundHalfEven(x.n * scale, x.d)
        whole == digits(scaled \div scale)
        frac == scaled % scale
    IN  (IF comma THEN thousands(whole) ELSE whole)
            \o (IF decimals = 2
                THEN <<".", Digit[(frac \div 10) + 1], Digit[(frac % 10) + 1]>>
                ELSE <<>>)

\* dict.get(field, []) on an analysis that may lack the field
get_list(analysis, field) ==
    IF field \in DOMAIN analysis THEN analysis[field] ELSE <<>>

\* variant: the currency amount is printed without its decimals
_generate_executive_summary_whole_revenue(summ) ==
    <<[name |-> "Total Users", value |-> format_fixed(summ.total_users, 0, TRUE)],
      [name |-> "Total Sessions", value |-> format_fixed(summ.total_sessions, 0, TRUE)],
      [name |-> "Conversion Rate",
       value |-> format_fixed(summ.conversion_rate, 2, FALSE) \o <<"%">>],
      [name |-> "Bounce Rate",
       value |-> format_fixed(summ.avg_bounce_rate, 2, FALSE) \o <<"%">>],
      [name |-> "Pages/Session", value |-> format_fixed(summ.pages_per_session, 2, FALSE)],
      [name |-> "Total Revenue",
       value |-> <<"$">> \o format_fixed(summ.total_revenue, 0, TRUE)]>>

\* the kpis of the executive summary
_generate_executive_summary(summ) ==
    <<[name |-> "Total Users", value |-> format_fixed(summ.total_users, 0, TRUE)],
      [name |-> "Total Sessions", value |-> format_fixed(summ.total_sessions, 0, TRUE)],
      [name |-> "Conversion Rate",
       value |-> format_fixed(summ.conversion_rate, 2, FALSE) \o <<"%">>],
      [name |-> "Bounce Rate",
       value |-> format_fixed(summ.avg_bounce_rate, 2, FALSE) \o <<"%">>],
      [name |-> "Pages/Session", value |-> format_fixed(summ.pages_per_session, 2, FALSE)],
      [name |-> "Total Revenue",
       value |-> <<"$">> \o format_fixed(summ.total_revenue, 2, TRUE)]>>

_generate_traffic_overview(analysis) ==
    [pie |-> get_list(analysis, "channel_distribution"),
     bar |-> FirstN(get_list(analysis, "by_channel"), 10),
     table |-> get_list(analysis, "by_channel")]

_generate_source_medium_section(analysis) ==
    LET tops == get_list(analysis, "top_performers")
        unders == get_list(analysis, "underperformers")
        quality == get_list(analysis, "quality_analysis")
        get(field, default) == IF field \in DOMAIN quality THEN quality[field]
                               ELSE default
    IN  [explanations |->
            (IF tops # <<>>
             THEN <<[title |-> "Top Performing Channel",
                     channel |-> tops[1].channel,
                     users |-> format_int(tops[1].users),
                     performance_score |-> tops[1].performance_score]>>
             ELSE <<>>)
            \o (IF DOMAIN quality # {}
                THEN <<[title |-> "Traffic Quality Analysis",
                        best_conversion_channel |-> get("best_conversion_channel", NA),
                        best_bounce_rate_channel |-> get("best_bounce_rate_channel", NA),
                        avg_bounce_rate |->
                            format_fixed(get("avg_bounce_rate", Zero), 2, FALSE)]>>
                ELSE <<>>)
            \o (IF unders # <<>>
                THEN <<[title |-> "Channels Requiring Attention",
                        problem_channels |->
                            [j \in 1..Len(FirstN(unders, 3)) |-> unders[j].channel]]>>
                ELSE <<>>),
         top_performers |-> tops,
         underperformers |-> unders,
         quality_metrics |-> quality]

\* the three-way reading of a metric: below low, below high, or not
_interpret(value, low, high) ==
    IF RLt(value, low) THEN "low" ELSE IF RLt(value, high) THEN "moderate" ELSE "high"

_generate_behavior_insights(behavior) ==
    <<IF RGt(behavior.engagement_metrics.engagement_rate, RInt(70))
      THEN "engagement rate above industry average" ELSE "consider A/B testing",
      IF RGt(behavior.engagement_metrics.avg_pages_per_session, Norm(5, 2))
      THEN "exploring deeply" ELSE "add internal links">>

_generate_user_behavior_section(behavior) ==
    LET engagement == behavior.engagement_metrics
        sessions == behavior.session_analysis
    IN  [metrics |->
            <<[name |-> "Average Pages per Session",
               value |-> engagement.avg_pages_per_session,
               interpretation |->
                   _interpret(engagement.avg_pages_per_session, Norm(3, 2), RInt(3))],
              [name |-> "Average Session Duration",
               value |-> format_fixed(engagement.avg_session_duration, 0, FALSE),
               interpretation |->
                   _interpret(engagement.avg_session_duration, RInt(60), RInt(180))],
              [name |-> "Engagement Rate",
               value |-> format_fixed(engagement.engagement_rate, 2, FALSE) \o <<"%">>,
               interpretation |->
                   _interpret(engagement.engagement_rate, RInt(50), RInt(70))],
              [name |-> "Sessions per User",
               value |-> sessions.sessions_per_user,
               interpretation |->
                   _interpret(sessions.sessions_per_user, Norm(6, 5), RInt(2))]>>,
         behavior_insights |-> _generate_behavior_insights(behavior)]

_generate_events_section(events) ==
    IF "message" \in DOMAIN events
    THEN [title |-> "Event Analysis", description |-> events.message]
    ELSE [title |-> "Website Events Analysis",
          summary |-> events.event_summary,
          top_events |-> events.top_events,
          conversion_events |-> events.conversion_events,
          event_categories |-> events.engagement_events]

\* variant: the warning is given below the benchmark of 3 only
_compile_insights_below_benchmark(summ, analysis, behavior) ==
    LET tops == get_list(analysis, "top_performers")
    IN  (IF tops # <<>>
         THEN <<[category |-> "Traffic", type |-> "positive",
                 title |-> "Top Traffic Source Identified",
                 channel |-> tops[1].channel, users |-> format_int(tops[1].users)]>>
         ELSE <<>>)
        \o (IF RGt(summ.conversion_rate, RInt(3))
            THEN <<[category |-> "Conversion", type |-> "positive",
                    title |-> "Strong Conversion Rate",
                    rate |-> format_fixed(summ.conversion_rate, 2, FALSE)]>>
            ELSE IF RGt(summ.conversion_rate, Zero) /\ RLt(summ.conversion_rate, RInt(3))
            THEN <<[category |-> "Conversion", type |-> "warning",
                    title |-> "Conversion Rate Optimization Needed",
                    rate |-> format_fixed(summ.conversion_rate, 2, FALSE)]>>
            ELSE <<>>)
        \o (IF RLt(behavior.engagement_metrics.engagement_rate, RInt(50))
            THEN <<[category |-> "Engagement", type |-> "critical",
                    title |-> "High Bounce Rate Alert"]>>
            ELSE <<>>)

_compile_insights(summ, analysis, behavior) ==
    LET tops == get_list(analysis, "top_performers")
    IN  (IF tops # <<>>
         THEN <<[category |-> "Traffic", type |-> "positive",
                 title |-> "Top Traffic Source Identified",
                 channel |-> tops[1].channel, users |-> format_int(tops[1].users)]>>
         ELSE <<>>)
        \o (IF RGt(summ.conversion_rate, RInt(3))
            THEN <<[category |-> "Conversion", type |-> "positive",
                    title |-> "Strong Conversion Rate",
                    rate |-> format_fixed(summ.conversion_rate, 2, FALSE)]>>
            ELSE IF RGt(summ.conversion_rate, Zero)
            THEN <<[category |-> "Conversion", type |-> "warning",
                    title |-> "Conversion Rate Optimization Needed",
                    rate |-> format_fixed(summ.conversion_rate, 2, FALSE)]>>
            ELSE <<>>)
        \o (IF RLt(behavior.engagement_metrics.engagement_rate, RInt(50))
            THEN <<[category |-> "Engagement", type |-> "critical",
                    title |-> "High Bounce Rate Alert"]>>
            ELSE <<>>)

_compile_recommendations(summ, analysis) ==
    LET tops == get_list(analysis, "top_performers")
    IN  (IF tops # <<>>
         THEN <<[priority |-> "High", category |-> "Traffic Acquisition",
                 title |-> "Increase investment in", channel |-> tops[1].channel,
                 expected_impact |-> "Potential 15-25% increase in quality traffic"]>>
         ELSE <<>>)
        \o (IF RLt(summ.conversion_rate, RInt(3))
            THEN <<[priority |-> "High", category |-> "Conversion Optimization",
                    title |-> "Implement Conversion Rate Optimization",
                    expected_impact |->
                        "Potential 0.5-1% improvement in conversion rate"]>>
            ELSE <<>>)
        \o (IF RGt(summ.avg_bounce_rate, RInt(60))
            THEN <<[priority |-> "Medium", category |-> "User Experience",
                    title |-> "Reduce Bounce Rate",
                    expected_impact |-> "Potential 10-15% reduction in bounce rate"]>>
            ELSE <<>>)
        \o (IF get_list(analysis, "underperformers") # <<>>
            THEN <<[priority |-> "Medium", category |-> "Channel Optimization",
                    title |-> "Review Underperforming Channels",
                    expected_impact |-> "Better ROI on marketing spend"]>>
            ELSE <<>>)

\* generate_dashboard without generated_at, the sections by their ids
generate_dashboard(summ, analysis, behavior, events) ==
    [status |-> "ok",
     executive_summary |-> _generate_executive_summary(summ),
     traffic_overview |-> _generate_traffic_overview(analysis),
     source_medium_analysis |-> _generate_source_medium_section(analysis),
     user_behavior |-> _generate_user_behavior_section(behavior),
     events |-> _generate_events_section(events),
     insights |-> _compile_insights(summ, analysis, behavior),
     recommendations |-> _compile_recommendations(summ, analysis)]

\* what process(file) returns on an agent without state, as a function of the
\* file and the build's tie order: the dashboard, or Raised
process_result(file, ties) ==
    LET d == load_csv(file)
        analysis == source_medium_result(d, ties)
        events == event_result(d, ties)
    IN  IF analysis.status = "raised" \/ events.status = "raised" THEN Raised
        ELSE generate_dashboard(summary_metrics(d), analysis,
                                user_behavior_result(d), events)

\* the end of process(): the generator is built on the four results and its
\* dashboard is returned
generate ==
    /\ pc = "events"
    /\ dashboard' = generate_dashboard(summary, source_medium_analysis,
                                       user_behavior, event_analysis)
    /\ returned' = Append(returned, dashboard')
    /\ pc' = "done"
    /\ UNCHANGED <<csv, tie_order, data, summary, source_medium_analysis,
                   user_behavior, event_analysis>>

\* a further call of process() on the same agent, once the call before it has
\* returned or raised: self.data and self.dashboard_generator are as that
\* call left them, the results of the new call are yet to be computed
process ==
    /\ pc \in {"done", "failed"}
    /\ Len(returned) < MaxCalls
    /\ csv \in RepeatFiles
    /\ csv' \in RepeatFiles
    /\ pc' = "start"
    /\ summary' = NoResult
    /\ source_medium_analysis' = NoResult
    /\ user_behavior' = NoResult
    /\ event_analysis' = NoResult
    /\ UNCHANGED <<tie_order, data, dashboard, returned>>

Next ==
    \/ process
    \/ _load_data
    \/ compute_summary_metrics
    \/ analyze_source_medium
    \/ analyze_user_behavior
    \/ analyze_events
    \/ generate

Spec == Init /\ [][Next]_vars

-----------------------------------------------------------------------------
(* Properties                                                              *)

Analysed == pc \in {"source_medium", "failed"}
Returned == pc = "source_medium" /\ source_medium_analysis.status = "ok"
HasKey == "source" \in data.columns \/ "source_medium" \in data.columns
AllRowsZero(col) == col \in data.columns /\ \A i \in 1..Len(data.rows) : data.rows[i][col] = 0
by_channel == source_medium_analysis.by_channel

\* C1: for every dataset with a source_medium or source column,
\* analyze_source_medium returns a grouped analysis and never raises, whichever
\* numeric columns are absent (in particular users).  Stated on the datasets
\* that are free of the zero-denominator condition of C3 (some row has
\* sessions, or there is no sessions column), so that a violation is a
\* missing-column fault.
C1_MissingColumnsNeverFatal ==
    (Analysed /\ HasKey /\ ~AllRowsZero("sessions"))
        => source_medium_analysis.status = "ok"

\* C2 (as claimed): conversion_rate and pages_per_session are 0 whenever total
\* sessions is 0, in the summary metrics and in every channel group: a group
\* whose summed sessions is 0 has conversion_rate 0.
C2_ZeroSessionsGiveZeroRates ==
    /\ (summary.status = "ok" /\ summary.total_sessions = Zero)
          => (summary.conversion_rate = Zero /\ summary.pages_per_session = Zero)
    /\ Returned =>
          \A j \in 1..Len(by_channel) :
             ("conversion_rate" \in DOMAIN by_channel[j].v
                 /\ by_channel[j].v["sessions"] = Zero)
                => by_channel[j].v["conversion_rate"] = Zero

\* C2 (amended): in the summary metrics conversion_rate and pages_per_session are
\* 0 whenever total sessions is 0; in a channel group whose summed sessions is 0
\* the conversion_rate is undefined (NaN), not 0, and groups carry no
\* pages_per_session.
C2_ZeroSessionsSummaryZeroGroupNaN ==
    /\ (summary.status = "ok" /\ summary.total_sessions = Zero)
          => (summary.conversion_rate = Zero /\ summary.pages_per_session = Zero)
    /\ Returned =>
          \A j \in 1..Len(by_channel) :
             /\ "pages_per_session" \notin DOMAIN by_channel[j].v
             /\ ("conversion_rate" \in DOMAIN by_channel[j].v
                   /\ by_channel[j].v["sessions"] = Zero)
                  => by_channel[j].v["conversion_rate"] = NaN

\* a summary over a sessions column that sums to 0, with conversions and
\* pageviews counted, and a returned group with no sessions
C2_Witness ==
    /\ Returned
    /\ {"sessions", "conversions", "pageviews"} \subseteq data.columns
    /\ summary.total_sessions = Zero
    /\ summary.total_pageviews # Zero
    /\ \E j \in 1..Len(by_channel) : by_channel[j].v["conversion_rate"] = NaN

\* C3: a zero denominator never causes a runtime fault: when every channel group
\* has summed sessions 0 (or summed users 0), analyze_source_medium still
\* returns its analysis, traffic quality included.
C3_ZeroDenominatorNeverFaults ==
    (Analysed /\ HasKey /\ "users" \in data.columns
        /\ \/ (AllRowsZero("sessions") /\ "conversions" \in data.columns)
           \/ (AllRowsZero("users") /\ "sessions" \in data.columns))
        => source_medium_analysis.status = "ok"

\* C4: for every dataset missing a numeric column, compute_summary_metrics does
\* not raise and each summary field computed from that column is 0.
SummaryFieldsOf(col) ==
    CASE col = "users" -> {"total_users"}
      [] col = "sessions" -> {"total_sessions", "pages_per_session", "conversion_rate"}
      [] col = "pageviews" -> {"total_pageviews", "pages_per_session"}
      [] col = "conversions" -> {"total_conversions", "conversion_rate"}
      [] col = "revenue" -> {"total_revenue"}
      [] col = "bounce_rate" -> {"avg_bounce_rate"}
      [] col = "avg_session_duration" -> {"avg_session_duration"}

C4_MissingColumnSummaryZero ==
    pc \in {"summary", "source_medium", "failed"} =>
        /\ summary.status = "ok"
        /\ \A col \in NumericCols \ data.columns :
              \A f \in SummaryFieldsOf(col) : summary[f] = Zero

\* a summary over a table that lacks sessions and bounce_rate but counts
\* pageviews and conversions
C4_Witness ==
    /\ pc = "summary"
    /\ "sessions" \notin data.columns /\ "bounce_rate" \notin data.columns
    /\ summary.total_pageviews # Zero /\ summary.total_conversions # Zero
    /\ summary.pages_per_session = Zero /\ summary.avg_bounce_rate = Zero

-----------------------------------------------------------------------------
(* Underperformers                                                         *)

underperformers == source_medium_analysis.underperformers
BounceRates == [j \in 1..Len(by_channel) |-> by_channel[j].v["bounce_rate"]]
HasBounce == "bounce_rate" \in source_medium_analysis.columns

RAbs(r) == [r EXCEPT !.n = Abs(r.n)]
Mean(xs) == RDiv(RSeqSum(xs), RInt(Len(xs)))

\* the positions i with xs[i] > mean(xs) + sqrt(sum of squared deviations /
\* divisor); with a divisor of 0 the deviation is undefined and nothing exceeds it
ExceedingMeanPlusDeviation(xs, divisor) ==
    LET mean == Mean(xs)
        sq == [j \in 1..Len(xs) |-> RMul(RSub(xs[j], mean), RSub(xs[j], mean))]
        total == RSeqSum(sq)
    IN  {i \in 1..Len(xs) :
            /\ divisor > 0
            /\ RGt(xs[i], mean)
            /\ RGt(RMul(sq[i], RInt(divisor)), total)}

PopulationCandidates == ExceedingMeanPlusDeviation(BounceRates, Len(by_channel))
SampleCandidates == ExceedingMeanPlusDeviation(BounceRates, Len(by_channel) - 1)

ListedPositions ==
    {j \in 1..Len(by_channel) :
        \E e \in 1..Len(underperformers) : underperformers[e].channel = by_channel[j].key}
PositionOf(ch) == CHOOSE j \in 1..Len(by_channel) : by_channel[j].key = ch

\* C5 (as claimed): a channel group is a candidate underperformer exactly when
\* its bounce_rate exceeds mean + stddev of the grouped bounce rates, the
\* stddev being the population one (divisor n).  The candidates are read off
\* the returned list: every listed group is a candidate, and while the list is
\* below its cap every candidate is listed.
C5_CandidatesByPopulationStd ==
    (Returned /\ HasBounce) =>
        LET listed == ListedPositions
            cands == PopulationCandidates
        IN  /\ listed \subseteq cands
            /\ Len(underperformers) < 5 => cands \subseteq listed

\* C5 (amended): a channel group is a candidate underperformer exactly when its
\* bounce_rate exceeds mean + stddev of the grouped bounce rates, the stddev
\* being the sample one (divisor n - 1); with a single group there is no
\* candidate.
C5_CandidatesBySampleStd ==
    (Returned /\ HasBounce) =>
        LET listed == ListedPositions
            cands == SampleCandidates
        IN  /\ listed \subseteq cands
            /\ Len(underperformers) < 5 => cands \subseteq listed

\* an analysis that lists a group, and leaves out a group that exceeds the
\* population threshold but not the sample one
C5_Witness ==
    /\ Returned /\ HasBounce
    /\ ListedPositions # {}
    /\ (PopulationCandidates \ SampleCandidates) \ ListedPositions # {}

\* C6 (as claimed): when more than 5 groups exceed the threshold, the listed
\* underperformers are the 5 with the highest bounce_rate among them: no
\* candidate left out has a higher bounce_rate than a listed one.
C6_CapKeepsHighestBounce ==
    (Returned /\ HasBounce) =>
        LET listed == ListedPositions
            cands == SampleCandidates
        IN  \A j \in cands \ listed : \A l \in listed :
                ~RGt(BounceRates[j], BounceRates[l])

\* C6 (amended): when more than 5 groups exceed the threshold, the listed
\* underperformers are the first 5 of them in by_channel order (users
\* descending), in that order, whatever their bounce rates.
C6_CapKeepsFirstByUsers ==
    (Returned /\ HasBounce) =>
        LET listed == ListedPositions
            cands == SampleCandidates
        IN  /\ listed = {j \in cands : Cardinality({i \in cands : i < j}) < 5}
            /\ \A e \in 1..Len(underperformers), f \in 1..Len(underperformers) :
                  e < f => PositionOf(underperformers[e].channel)
                              < PositionOf(underperformers[f].channel)

\* more than 5 candidates, and one left out whose bounce_rate is higher than a
\* listed one's and whose users are fewer
C6_Witness ==
    /\ Returned /\ HasBounce
    /\ LET listed == ListedPositions
           cands == SampleCandidates
       IN  /\ Cardinality(cands) > 5
           /\ \E j \in cands \ listed, l \in listed :
                 /\ RGt(BounceRates[j], BounceRates[l])
                 /\ RLt(by_channel[j].v["users"], by_channel[l].v["users"])

\* C7: the underperformer list is empty when the bounce_rate column is absent,
\* and has at most 5 entries otherwise.
C7_UnderperformersEmptyOrCapped ==
    Returned =>
        /\ "bounce_rate" \notin data.columns => underperformers = <<>>
        /\ Len(underperformers) <= 5

\* the cap at work: more candidates than entries
C7_Witness ==
    /\ Returned /\ HasBounce
    /\ Len(underperformers) = 5
    /\ Cardinality(SampleCandidates) > Len(underperformers)

-----------------------------------------------------------------------------
(* Top performers, distribution, ordering                                  *)

top_performers == source_medium_analysis.top_performers
channel_distribution == source_medium_analysis.channel_distribution

Present(row, metric) == metric \in DOMAIN row.v /\ ~IsNaN(row.v[metric])

\* 0.4 * conversion_rate + 0.3 * sessions_per_user + 0.3 * (100 - bounce_rate),
\* an absent or undefined metric contributing 0, rounded to 2 decimals
WeightedScore(row) ==
    LET cr == IF Present(row, "conversion_rate")
              THEN RMul(Norm(4, 10), row.v["conversion_rate"]) ELSE Zero
        spu == IF Present(row, "sessions_per_user")
               THEN RMul(Norm(3, 10), row.v["sessions_per_user"]) ELSE Zero
        br == IF Present(row, "bounce_rate")
              THEN RMul(Norm(3, 10), RSub(RInt(100), row.v["bounce_rate"])) ELSE Zero
    IN  Round2(RAdd(cr, RAdd(spu, br)))

\* C8: each top performer's performance_score equals
\* 0.4*conversion_rate + 0.3*sessions_per_user + 0.3*(100 - bounce_rate) rounded
\* to 2 decimals, a metric absent from the group (column missing or value
\* undefined) contributing 0; a group with all three absent scores 0.
C8_PerformanceScore ==
    Returned =>
        \A j \in 1..Len(top_performers) :
            /\ top_performers[j].performance_score = WeightedScore(by_channel[j])
            /\ (\A m \in {"conversion_rate", "sessions_per_user", "bounce_rate"} :
                    ~Present(by_channel[j], m))
                  => top_performers[j].performance_score = Zero

\* a top performer scored on all three metrics, with a bounce_rate other than
\* 50, next to one with sessions_per_user undefined
C8_Witness ==
    /\ Returned
    /\ \E j \in 1..Len(top_performers) :
          /\ \A m \in {"conversion_rate", "sessions_per_user", "bounce_rate"} :
                Present(by_channel[j], m)
          /\ by_channel[j].v["bounce_rate"] # RInt(50)
          /\ RGt(by_channel[j].v["conversion_rate"], Zero)
    /\ \E j \in 1..Len(top_performers) :
          /\ "sessions_per_user" \in DOMAIN by_channel[j].v
          /\ ~Present(by_channel[j], "sessions_per_user")

\* C9: the channel_distribution percentages, each group's share of total users,
\* sum to 100 within the rounding of the entries (0.005 each) whenever the users
\* total is positive, and are all 0 when the users total is 0.
C9_DistributionSumsTo100 ==
    Returned =>
        LET n == Len(channel_distribution)
            total == SeqSum([j \in 1..n |-> channel_distribution[j].value])
            pct == [j \in 1..n |-> channel_distribution[j].percentage]
        IN  /\ n = Len(by_channel)
            /\ total > 0 =>
                  /\ ~RGt(RAbs(RSub(RSeqSum(pct), RInt(100))), Norm(n, 200))
                  /\ \A j \in 1..n :
                        ~RGt(RAbs(RSub(pct[j],
                                       Norm(100 * channel_distribution[j].value, total))),
                             Norm(1, 200))
            /\ total = 0 => \A j \in 1..n : pct[j] = Zero

\* three or more groups with a positive users total whose rounded shares do
\* not add up to exactly 100
C9_Witness ==
    /\ Returned
    /\ Len(channel_distribution) >= 3
    /\ \E j \in 1..Len(channel_distribution) : channel_distribution[j].value > 0
    /\ RSeqSum([j \in 1..Len(channel_distribution) |->
                    channel_distribution[j].percentage]) # RInt(100)

SortedByUsersDesc(rows) ==
    \A i \in 1..Len(rows), j \in 1..Len(rows) :
        i < j => ~RLt(rows[i].v["users"], rows[j].v["users"])

\* groupby lists the keys in ascending order
TiesInGroupingOrder(rows) ==
    \A i \in 1..Len(rows), j \in 1..Len(rows) :
        (i < j /\ rows[i].v["users"] = rows[j].v["users"]) => rows[i].key < rows[j].key

\* C10: by_channel is sorted in descending order of each group's summed users,
\* groups with equal users keep the relative order the grouping produced, and
\* running analyze_source_medium again on the same dataset yields the identical
\* ordering and values.
C10_SortedStableDeterministic ==
    [][(pc' = "source_medium" /\ source_medium_analysis'.status = "ok") =>
          /\ SortedByUsersDesc(source_medium_analysis'.by_channel)
          /\ TiesInGroupingOrder(source_medium_analysis'.by_channel)
          /\ pc = "source_medium" => source_medium_analysis' = source_medium_analysis
      ]_vars

-----------------------------------------------------------------------------
(* Top performers and traffic quality against by_channel                   *)

Min(a, b) == IF a < b THEN a ELSE b

\* C11: top_performers is exactly the first min(5, number of groups) entries
\* of the users-sorted by_channel list, in the same order, each carrying that
\* group's channel key and user count; the channel with the most users is
\* top_performers[1] (the first entry).
C11_TopPerformersAreFirstFive ==
    Returned =>
        /\ Len(top_performers) = Min(5, Len(by_channel))
        /\ \A j \in 1..Len(top_performers) :
              /\ top_performers[j].channel = by_channel[j].key
              /\ RInt(top_performers[j].users) = by_channel[j].v["users"]
        /\ \A k \in 1..Len(by_channel) :
              top_performers[1].users >= Trunc(by_channel[k].v["users"])

\* more than five groups, the sixth with fewer users than the fifth
C11_Witness ==
    /\ Returned
    /\ Len(by_channel) > 5
    /\ Len(top_performers) = 5
    /\ RLt(by_channel[6].v["users"], by_channel[5].v["users"])

quality_analysis == source_medium_analysis.quality_analysis

\* the first group in by_channel order whose metric is defined and not worse
\* than that of any other group (lower is better when lowest, higher otherwise)
FirstBest(metric, lowest) ==
    LET defined == {j \in 1..Len(by_channel) : Present(by_channel[j], metric)}
        better(a, b) == IF lowest THEN RLt(a, b) ELSE RGt(a, b)
        best == {j \in defined : \A k \in defined :
                    ~better(by_channel[k].v[metric], by_channel[j].v[metric])}
    IN  IF best = {} THEN 0 ELSE CHOOSE j \in best : \A k \in best : j <= k

\* C12: for either grouping key (source_medium, or source alone) the
\* traffic-quality analysis reports as best_bounce_rate_channel the key of the
\* group with the lowest bounce_rate and as best_conversion_channel the key of
\* the group with the highest conversion_rate, ties going to the first such
\* group in by_channel order; a field whose source column is absent is omitted.
C12_BestChannelsAreGroupKeys ==
    Returned =>
        LET b == FirstBest("bounce_rate", TRUE)
            c == FirstBest("conversion_rate", FALSE)
        IN  /\ "best_bounce_rate_channel" \in DOMAIN quality_analysis
                  <=> "bounce_rate" \in data.columns
            /\ "best_conversion_channel" \in DOMAIN quality_analysis
                  <=> {"conversions", "sessions"} \subseteq data.columns
            /\ ("bounce_rate" \in data.columns /\ b # 0) =>
                  quality_analysis["best_bounce_rate_channel"] = Channel(by_channel[b].key)
            /\ ({"conversions", "sessions"} \subseteq data.columns /\ c # 0) =>
                  quality_analysis["best_conversion_channel"] = Channel(by_channel[c].key)

-----------------------------------------------------------------------------
(* User behaviour                                                          *)

BehaviorDone == user_behavior.status = "ok"

\* C13: the retention indicator returned by analyze_user_behavior equals
\* total_sessions / max(total_users, 1), the same value as
\* session_analysis.sessions_per_user, for every dataset.
C13_RetentionIsSessionsPerUser ==
    BehaviorDone =>
        /\ user_behavior.retention_indicators.returning_user_indicator
              = Round2(RDiv(summary.total_sessions, max_1(summary.total_users)))
        /\ user_behavior.retention_indicators.returning_user_indicator
              = user_behavior.session_analysis.sessions_per_user

-----------------------------------------------------------------------------
(* Insight and recommendation rules                                        *)

Done == pc = "done"
insights == dashboard.insights
recommendations == dashboard.recommendations

\* how many items of a list bear the title
Count(items, title) == Cardinality({i \in 1..Len(items) : items[i].title = title})

Titled(items, title) == items[CHOOSE i \in 1..Len(items) : items[i].title = title]

\* 1 if the condition holds, else 0
Fires(cond) == IF cond THEN 1 ELSE 0

TopPerformerExists ==
    /\ source_medium_analysis.status = "ok"
    /\ source_medium_analysis.top_performers # <<>>

UnderperformersExist ==
    /\ source_medium_analysis.status = "ok"
    /\ source_medium_analysis.underperformers # <<>>

engagement_rate == user_behavior.engagement_metrics.engagement_rate

\* C14: each of the eight rules fires exactly when its condition holds and
\* appends exactly one item then, of the stated type or priority: top performer
\* exists -> positive Traffic insight and High increase-investment
\* recommendation; conversion_rate > 3 -> positive insight; 0 < conversion_rate
\* <= 3 -> warning insight; engagement_rate < 50 -> critical insight;
\* conversion_rate < 3 -> High CRO recommendation; avg_bounce_rate > 60 ->
\* Medium reduce-bounce recommendation; underperformers non-empty -> Medium
\* audit recommendation.  The lists hold nothing else, so that a rule fires
\* whatever the other rules do.
C14_RulesFireOnTheirConditions ==
    Done =>
        LET cr == summary.conversion_rate
            top == Fires(TopPerformerExists)
            strong == Fires(RGt(cr, RInt(3)))
            needed == Fires(RGt(cr, Zero) /\ ~RGt(cr, RInt(3)))
            alert == Fires(RLt(engagement_rate, RInt(50)))
            cro == Fires(RLt(cr, RInt(3)))
            reduce == Fires(RGt(summary.avg_bounce_rate, RInt(60)))
            audit == Fires(UnderperformersExist)
        IN  /\ Count(insights, "Top Traffic Source Identified") = top
            /\ Count(insights, "Strong Conversion Rate") = strong
            /\ Count(insights, "Conversion Rate Optimization Needed") = needed
            /\ Count(insights, "High Bounce Rate Alert") = alert
            /\ Len(insights) = top + strong + needed + alert
            /\ Count(recommendations, "Increase investment in") = top
            /\ Count(recommendations, "Implement Conversion Rate Optimization") = cro
            /\ Count(recommendations, "Reduce Bounce Rate") = reduce
            /\ Count(recommendations, "Review Underperforming Channels") = audit
            /\ Len(recommendations) = top + cro + reduce + audit
            /\ \A i \in 1..Len(insights) :
                  insights[i].type =
                      CASE insights[i].title = "High Bounce Rate Alert" -> "critical"
                        [] insights[i].title = "Conversion Rate Optimization Needed"
                              -> "warning"
                        [] OTHER -> "positive"
            /\ \A i \in 1..Len(recommendations) :
                  recommendations[i].priority =
                      IF recommendations[i].title
                            \in {"Increase investment in",
                                 "Implement Conversion Rate Optimization"}
                      THEN "High" ELSE "Medium"

\* a conversion rate of exactly 3 with a bounce rate above 60 and a top
\* performer: the warning, the alert and the traffic insight fire together, the
\* CRO recommendation does not
C14_Witness ==
    /\ Done
    /\ summary.conversion_rate = RInt(3)
    /\ RGt(summary.avg_bounce_rate, RInt(60))
    /\ TopPerformerExists
    /\ Len(insights) = 3
    /\ Len(recommendations) = 2

\* C15: absence of the metric a rule needs prevents that rule from firing: for
\* a dataset with no conversions column (or no sessions column) neither a
\* conversion insight nor the 'Implement Conversion Rate Optimization'
\* recommendation is emitted, and for a dataset with no bounce_rate column
\* neither the critical bounce insight nor the 'Reduce Bounce Rate'
\* recommendation is emitted.
C15_AbsentMetricSilencesItsRules ==
    Done =>
        /\ ~({"conversions", "sessions"} \subseteq data.columns) =>
              /\ Count(insights, "Strong Conversion Rate") = 0
              /\ Count(insights, "Conversion Rate Optimization Needed") = 0
              /\ Count(recommendations, "Implement Conversion Rate Optimization") = 0
        /\ "bounce_rate" \notin data.columns =>
              /\ Count(insights, "High Bounce Rate Alert") = 0
              /\ Count(recommendations, "Reduce Bounce Rate") = 0

-----------------------------------------------------------------------------
(* Datasets that differ in columns the rules do not read                   *)

\* the file with an event_name and an event_count column added, row i taking
\* the name and the count of position i of the list
with_events(file, evs) ==
    [columns |-> file.columns \cup {"event_name", "event_count"},
     rows |-> [i \in 1..Len(file.rows) |->
                 [col \in file.columns \cup {"event_name", "event_count"} |->
                     CASE col = "event_name" -> evs[i][1]
                       [] col = "event_count" -> evs[i][2]
                       [] OTHER -> file.rows[i][col]]]]

\* two ways of filling the event columns of n rows
EventColumns(n) ==
    {[i \in 1..n |-> <<EventName(((i + k) % 3) + 1), i * k>>] : k \in {1, 2}}

\* C16: for a dataset with no event_name column analyze_events returns the
\* absence marker and does not raise, and the insights and recommendations of
\* the dashboard are identical to those produced for the same dataset with
\* event_name and event_count columns added.
C16_EventsDoNotTouchTheRules ==
    /\ "event_name" \notin data.columns => event_analysis.status \in {"none", "absent"}
    /\ (Done /\ "event_name" \notin data.columns) =>
          /\ event_analysis = NoEvents
          /\ \A evs \in EventColumns(Len(csv.rows)) :
                LET other == process_result(with_events(csv, evs), tie_order)
                IN  /\ other.status = "ok"
                    /\ other.insights = insights
                    /\ other.recommendations = recommendations

\* a dashboard with insights and recommendations made without event data,
\* next to one made with event data
C16_Witness ==
    /\ Done
    /\ "event_name" \notin data.columns
    /\ event_analysis = NoEvents
    /\ Len(insights) >= 2
    /\ Len(recommendations) >= 2
    /\ \E evs \in EventColumns(Len(csv.rows)) :
          process_result(with_events(csv, evs), tie_order).events # dashboard.events

\* the file with the cells of its revenue column replaced by those of the list
with_revenue(file, revs) ==
    [columns |-> file.columns,
     rows |-> [i \in 1..Len(file.rows) |->
                 [col \in file.columns |->
                     IF col = "revenue" THEN revs[i] ELSE file.rows[i][col]]]]

\* two ways of filling the revenue column of n rows: nothing, and amounts
\* that add up to more than a thousand
RevenueColumns(n) == {[i \in 1..n |-> 0], [i \in 1..n |-> 617 * i]}

Kpi(name) ==
    LET kpis == dashboard.executive_summary
    IN  kpis[CHOOSE i \in 1..Len(kpis) : kpis[i].name = name].value

\* C17: no insight or recommendation rule is gated by revenue: two datasets
\* that differ only in the values of the revenue column produce the same
\* insights and the same recommendations; with an all-zero revenue column
\* total_revenue is 0 and the Total Revenue KPI is the string $0.00.
C17_RevenueGatesNoRule ==
    /\ (Done /\ "revenue" \in data.columns) =>
          \A revs \in RevenueColumns(Len(csv.rows)) :
              LET other == process_result(with_revenue(csv, revs), tie_order)
              IN  /\ other.status = "ok"
                  /\ other.insights = insights
                  /\ other.recommendations = recommendations
    /\ (Done /\ AllRowsZero("revenue")) =>
          /\ summary.total_revenue = Zero
          /\ Kpi("Total Revenue") = <<"$", "0", ".", "0", "0">>

\* a dashboard with insights and recommendations made from an all-zero
\* revenue column, next to one of the same file with revenue, whose KPI differs
C17_Witness ==
    /\ Done
    /\ AllRowsZero("revenue")
    /\ Len(insights) >= 2
    /\ Len(recommendations) >= 2
    /\ Kpi("Total Revenue") = <<"$", "0", ".", "0", "0">>
    /\ \E revs \in RevenueColumns(Len(csv.rows)) :
          process_result(with_revenue(csv, revs), tie_order).executive_summary
              # dashboard.executive_summary

-----------------------------------------------------------------------------
(* Successive calls on one agent                                           *)

\* C18: the engine holds no state across invocations: for any sequence of
\* process calls on one agent, what each call returns (the dashboard without
\* generated_at, or the exception) is what an agent without state returns for
\* that call's dataset alone, whatever was processed before it.
C18_CallsAreIndependent ==
    pc \in {"done", "failed"} =>
        /\ returned # <<>>
        /\ returned[Len(returned)] = process_result(csv, tie_order)

\* a second call that returned a dashboard other than the dashboard the first
\* call returned
C18_Witness ==
    /\ pc = "done"
    /\ Len(returned) = 2
    /\ returned[1].status = "ok"
    /\ returned[2] = dashboard
    /\ returned[1] # returned[2]

-----------------------------------------------------------------------------
(* Events                                                                  *)

EventsDone == event_analysis.status = "ok"
top_events == event_analysis.top_events
event_names == ColumnValues(data.rows, "event_name")

\* the row in which the name first occurs in the dataset
FirstSeen(name) ==
    CHOOSE i \in 1..Len(event_names) :
        /\ event_names[i] = name
        /\ \A k \in 1..(i - 1) : event_names[k] # name

\* the sum of event_count over the rows of the name
SummedCount(name) ==
    SeqSum([i \in 1..Len(data.rows) |->
               IF event_names[i] = name THEN data.rows[i]["event_count"] ELSE 0])

\* at most 10 entries of distinct names of the dataset, each with its summed
\* count, in descending order of the counts
TopEventsCappedAndDescending ==
    /\ Len(top_events) <= 10
    /\ \A i \in 1..Len(top_events) :
          /\ \E r \in 1..Len(event_names) : event_names[r] = top_events[i].event
          /\ top_events[i].count = SummedCount(top_events[i].event)
    /\ \A i \in 1..Len(top_events), j \in 1..Len(top_events) :
          i < j => /\ top_events[i].event # top_events[j].event
                   /\ top_events[i].count >= top_events[j].count

\* C19: top_events lists at most 10 distinct event names, ordered by summed
\* event_count descending, and two event names with equal summed counts appear
\* in the order in which they first occur in the dataset.
C19_TopEventsTiesFirstSeen ==
    EventsDone =>
        /\ TopEventsCappedAndDescending
        /\ \A i \in 1..Len(top_events), j \in 1..Len(top_events) :
              (i < j /\ top_events[i].count = top_events[j].count)
                  => FirstSeen(top_events[i].event) < FirstSeen(top_events[j].event)

engagement_events == event_analysis.engagement_events

InBucket(name, c) ==
    \E i \in 1..Len(engagement_events[categories[c]]) :
        engagement_events[categories[c]][i] = name

\* some keyword of category c is a substring of the text
HasKeywordOf(text, c) ==
    \E k \in 1..Len(engagement_categories[categories[c]]) :
        contains(text, engagement_categories[categories[c]][k])

\* every bucket lists names of the dataset, each at most once
BucketsListDistinctNames ==
    \A c \in 1..Len(categories) :
        LET bucket == engagement_events[categories[c]]
        IN  /\ \A i \in 1..Len(bucket) :
                  \E r \in 1..Len(event_names) : event_names[r] = bucket[i]
            /\ \A i \in 1..Len(bucket), j \in 1..Len(bucket) :
                  i # j => bucket[i] # bucket[j]

\* C20 (as claimed): engagement categorization puts each distinct event name
\* into exactly the first category, in the order navigation, interaction,
\* conversion, one of whose keywords is a substring of the name, and into no
\* other; an event name matching no keyword appears in no bucket, so no event
\* name appears in two buckets.
C20_FirstCategoryBySubstring ==
    EventsDone =>
        /\ BucketsListDistinctNames
        /\ \A r \in 1..Len(event_names), c \in 1..Len(categories) :
              InBucket(event_names[r], c)
                  <=> /\ HasKeywordOf(event_names[r], c)
                      /\ \A b \in 1..(c - 1) : ~HasKeywordOf(event_names[r], b)

\* C20 (amended): engagement categorization puts each distinct event name into
\* exactly the first category, in the order navigation, interaction,
\* conversion, one of whose keywords is a substring of the name in lower case
\* (the match ignores the case of the name), and into no other; a name whose
\* lower-case form contains no keyword appears in no bucket, so no event name
\* appears in two buckets.
C20_FirstCategoryByLowercaseSubstring ==
    EventsDone =>
        /\ BucketsListDistinctNames
        /\ \A r \in 1..Len(event_names), c \in 1..Len(categories) :
              InBucket(event_names[r], c)
                  <=> /\ HasKeywordOf(lower(event_names[r]), c)
                      /\ \A b \in 1..(c - 1) : ~HasKeywordOf(lower(event_names[r]), b)

\* a dataset with a name in capitals that holds keywords of two categories
\* and is listed under the first only, and a name that is in no bucket
C20_Witness ==
    /\ EventsDone
    /\ \E r \in 1..Len(event_names) :
          /\ lower(event_names[r]) # event_names[r]
          /\ HasKeywordOf(lower(event_names[r]), 1)
          /\ HasKeywordOf(lower(event_names[r]), 3)
          /\ InBucket(event_names[r], 1)
          /\ ~InBucket(event_names[r], 3)
    /\ \E r \in 1..Len(event_names) :
          \A c \in 1..Len(categories) : ~InBucket(event_names[r], c)
    /\ \A c \in 1..Len(categories) : engagement_events[categories[c]] # <<>>

\* ---------------------------------------------------------------------------
Analysis == source_medium_analysis.status \in {"ok", "error"}
Groups == IF source_medium_analysis.status = "ok" THEN Len(by_channel) ELSE 0
SameBounceRate ==
    /\ source_medium_analysis.status = "ok"
    /\ HasBounce
    /\ \A i, j \in 1..Len(by_channel) :
          ~RLt(BounceRates[i], BounceRates[j])

\* C21: for every dataset that yields at most two channel groups, or in which
\* all groups have the same bounce_rate, the analysis lists no underperformer,
\* and the dashboard generated from it carries no 'Review Underperforming
\* Channels' recommendation.
C21_FewOrEqualGroupsHaveNoUnderperformers ==
    (Analysis /\ (Groups <= 2 \/ SameBounceRate)) =>
        /\ source_medium_analysis.status = "ok" => underperformers = <<>>
        /\ Done => Count(recommendations, "Review Underperforming Channels") = 0

\* C21 witness: a dashboard was generated from two groups of different bounce
\* rates, so one of them is above the mean
C21_Witness ==
    /\ Done
    /\ Groups = 2
    /\ HasBounce
    /\ RLt(BounceRates[1], BounceRates[2]) \/ RLt(BounceRates[2], BounceRates[1])
    /\ underperformers = <<>>
    /\ recommendations # <<>>

\* ---------------------------------------------------------------------------
\* C22: the conversion insight and the conversion recommendation agree for
\* every summary: a dashboard that carries the warning insight 'Conversion
\* Rate Optimization Needed' carries the High-priority 'Implement Conversion
\* Rate Optimization' recommendation too, and a dashboard that carries the
\* positive insight 'Strong Conversion Rate' does not carry it.
C22_ConversionInsightMatchesRecommendation ==
    Done =>
        /\ Count(insights, "Conversion Rate Optimization Needed") > 0 =>
              /\ Count(recommendations, "Implement Conversion Rate Optimization") > 0
              /\ Titled(recommendations,
                        "Implement Conversion Rate Optimization").priority = "High"
        /\ Count(insights, "Strong Conversion Rate") > 0 =>
              Count(recommendations, "Implement Conversion Rate Optimization") = 0

=============================================================================
